---- MODULE Spec2Model ----
(***************************************************************************)
(* Instance selection and bin-packing of pkg/resolver (instance_types.go   *)
(* and the trace-simulation file that holds BinPackWorkloadsNaive and      *)
(* BinPackWorkloadsWithQuota).                                             *)
(*                                                                         *)
(* Numbers.  float64 quantities are modelled exactly:                      *)
(*   - MemoryGiB / MemoryRequirements are counted in 1/MemScale GiB, so    *)
(*     that int(MemoryRequirements) truncates (int(m) = m \div MemScale);  *)
(*   - PricePerHour is counted in cents, so price + 0.01 = (p + 1) / 100;  *)
(*   - fits and scores are rationals [n, d] in lowest terms with d > 0.    *)
(* Strings that the code parses (capability values) are tuples of          *)
(* one-character strings.                                                  *)
(***************************************************************************)
EXTENDS Integers, Sequences, FiniteSets, TLC

VARIABLES
    op,          \* the entry point that is running
    catalog,     \* caller's []AzureInstanceSpec
    workloads,   \* caller's WorkloadSet
    strategy,    \* SelectionStrategy argument
    quota,       \* QuotaMap argument ([isNil, m])
    pc,          \* position in the running entry point
    sorted,      \* BinPackWorkloads: sorted
    origin,      \* ghost: origin[i] = input position of sorted[i]
    unpacked,    \* BinPackWorkloads: unpacked (TRUE = already packed)
    candidates,  \* BinPackWorkloadsWithQuota: the run's candidate list
    usedVCpus,   \* BinPackWorkloadsWithQuota: usedVCpus
    bestVM,      \* BinPackWorkloads: bestVM of the last selection
    vms,         \* result.VMs
    ni,          \* BinPackWorkloadsNaive: index of the range loop
    selResult,   \* select: the returned (machine, score)
    args,        \* arguments of a directly called pure function
    ret          \* what the directly called pure functions returned

vars == <<op, catalog, workloads, strategy, quota, pc, sorted, origin,
          unpacked, candidates, usedVCpus, bestVM, vms, ni, selResult,
          args, ret>>

\* untouched by the selection and packing entry points
callVars == <<args, ret>>

----------------------------------------------------------------------------
(* Bounds *)

MaxCatalog == 2

MaxWorkloads == 3

MaxVMs == 4

MaxSelCatalog == 3

----------------------------------------------------------------------------
(* Units and rationals *)

MemScale == 2

Abs(x) == IF x < 0 THEN -x ELSE x

RECURSIVE GCD(_, _)
GCD(a, b) == IF b = 0 THEN a ELSE GCD(b, a % b)

Rat(n, d) ==
    LET g == GCD(Abs(n), d)
    IN  [n |-> n \div g, d |-> d \div g]

One == [n |-> 1, d |-> 1]

Zero == [n |-> 0, d |-> 1]

RAdd(a, b) == Rat(a.n * b.d + b.n * a.d, a.d * b.d)

RMul(a, b) == Rat(a.n * b.n, a.d * b.d)

RLess(a, b) == a.n * b.d < b.n * a.d

RLeq(a, b) == a.n * b.d <= b.n * a.d

\* k / 100
Pct(k) == Rat(k, 100)

----------------------------------------------------------------------------
(* Strings *)

ToLower(s) ==
    CASE s = "NVIDIA" -> "nvidia"
      [] s = "Nvidia" -> "nvidia"
      [] s = "AMD"    -> "amd"
      [] OTHER        -> s

EqualFold(a, b) == ToLower(a) = ToLower(b)

StrTrue == <<"t", "r", "u", "e">>

StrFalse == <<"f", "a", "l", "s", "e">>

DigitVal(c) ==
    CASE c = "0" -> 0 [] c = "1" -> 1 [] c = "2" -> 2 [] c = "3" -> 3
      [] c = "4" -> 4 [] c = "5" -> 5 [] c = "6" -> 6 [] c = "7" -> 7
      [] c = "8" -> 8 [] c = "9" -> 9 [] OTHER -> -1

IsSpace(c) == c \in {" ", "\t", "\n", "\r"}

RECURSIVE SkipSpace(_, _)
SkipSpace(s, i) ==
    IF i <= Len(s) /\ IsSpace(s[i]) THEN SkipSpace(s, i + 1) ELSE i

RECURSIVE ScanDigits(_, _, _, _)
ScanDigits(s, i, acc, seen) ==
    IF i <= Len(s) /\ DigitVal(s[i]) >= 0
    THEN ScanDigits(s, i + 1, acc * 10 + DigitVal(s[i]), TRUE)
    ELSE [ok |-> seen, val |-> acc]

\* fmt.Sscanf(val, "%d", &req): leading space skipped, optional sign, then
\* at least one digit; whatever follows the digits is left unread.
SscanfInt(s) ==
    LET i == SkipSpace(s, 1)
        signed == i <= Len(s) /\ s[i] \in {"+", "-"}
        j == IF signed THEN i + 1 ELSE i
        r == ScanDigits(s, j, 0, FALSE)
    IN  [ok |-> r.ok,
         val |-> IF ~r.ok THEN 0
                 ELSE IF signed /\ s[i] = "-" THEN -r.val ELSE r.val]

----------------------------------------------------------------------------
(* Data model *)

StrategyGeneralPurpose == "general"

StrategyCPUIntensive == "cpu"

StrategyMemoryIntensive == "memory"

StrategyIOIntensive == "io"

Strategies == {StrategyGeneralPurpose, StrategyCPUIntensive,
               StrategyMemoryIntensive, StrategyIOIntensive}

NoCaps == <<>>

\* AzureInstanceSpec{}: the zero value
ZeroSpec ==
    [Name |-> "", VCpus |-> 0, MemoryGiB |-> 0, StorageGiB |-> 0,
     PricePerHour |-> 0, Family |-> "", GPUCount |-> 0, GPUType |-> "",
     AvailabilityZones |-> {}, EphemeralOSDisk |-> FALSE,
     NestedVirtualization |-> FALSE, SpotSupported |-> FALSE,
     ConfidentialComputing |-> FALSE, TrustedLaunch |-> FALSE,
     AcceleratedNetworking |-> FALSE, MaxPods |-> 0]

\* WorkloadProfile{}: the zero value
ZeroWorkload ==
    [CPURequirements |-> 0, MemoryRequirements |-> 0, IORequirements |-> 0,
     GPURequirements |-> 0, GPUType |-> "", Zone |-> "",
     RequireEphemeralOS |-> FALSE, RequireNestedVirt |-> FALSE,
     RequireSpot |-> FALSE, RequireConfidential |-> FALSE,
     Capabilities |-> NoCaps]

\* workload.Capabilities[key]: (val, ok)
HasCap(w, key) == key \in DOMAIN w.Capabilities

----------------------------------------------------------------------------
(* Filter chain *)

\* faulty variant of FilterByZone: the zone is not looked at
FilterByZone_Off(inst, workload) == TRUE

FilterByZone(inst, workload) ==
    IF workload.Zone = "" THEN TRUE
    ELSE workload.Zone \in inst.AvailabilityZones

FilterByGPU(inst, workload) ==
    IF workload.GPURequirements = 0 THEN TRUE
    ELSE IF inst.GPUCount < workload.GPURequirements THEN FALSE
    ELSE IF workload.GPUType # "" /\ ~EqualFold(inst.GPUType, workload.GPUType)
         THEN FALSE
    ELSE TRUE

FilterByEphemeralOS(inst, workload) ==
    IF ~workload.RequireEphemeralOS THEN TRUE ELSE inst.EphemeralOSDisk

FilterByTrustedLaunch(inst, workload) ==
    IF HasCap(workload, "TrustedLaunch")
       /\ workload.Capabilities["TrustedLaunch"] = StrTrue
    THEN inst.TrustedLaunch
    ELSE TRUE

FilterByAcceleratedNetworking(inst, workload) ==
    IF HasCap(workload, "AcceleratedNetworking")
       /\ workload.Capabilities["AcceleratedNetworking"] = StrTrue
    THEN inst.AcceleratedNetworking
    ELSE TRUE

FilterByMaxPods(inst, workload) ==
    IF HasCap(workload, "MaxPods")
    THEN LET r == SscanfInt(workload.Capabilities["MaxPods"])
         IN  IF r.ok /\ inst.MaxPods > 0 THEN inst.MaxPods >= r.val
             ELSE TRUE
    ELSE TRUE

ApplyFilter(f, inst, workload) ==
    CASE f = "Zone"                  -> FilterByZone(inst, workload)
      [] f = "GPU"                   -> FilterByGPU(inst, workload)
      [] f = "EphemeralOS"           -> FilterByEphemeralOS(inst, workload)
      [] f = "TrustedLaunch"         -> FilterByTrustedLaunch(inst, workload)
      [] f = "AcceleratedNetworking" -> FilterByAcceleratedNetworking(inst, workload)
      [] f = "MaxPods"               -> FilterByMaxPods(inst, workload)

\* faulty variant of FilterInstanceTypes: one passing filter is enough
FilterInstanceTypes_Any(cands, workload, filters) ==
    SelectSeq(cands,
        LAMBDA inst : \E k \in 1..Len(filters) :
                          ApplyFilter(filters[k], inst, workload))

\* faulty variant of FilterInstanceTypes: only the first filter is asked
FilterInstanceTypes_FirstOnly(cands, workload, filters) ==
    SelectSeq(cands,
        LAMBDA inst : filters # <<>> =>
                          ApplyFilter(filters[1], inst, workload))

\* candidates kept in order; a candidate survives when no filter rejects it
FilterInstanceTypes(cands, workload, filters) ==
    SelectSeq(cands,
        LAMBDA inst : \A k \in 1..Len(filters) :
                          ApplyFilter(filters[k], inst, workload))

StandardFilters ==
    <<"Zone", "GPU", "EphemeralOS", "TrustedLaunch",
      "AcceleratedNetworking", "MaxPods">>

----------------------------------------------------------------------------
(* Fit and score engine *)

\* min(a, b float64)
min(a, b) == IF RLess(a, b) THEN a ELSE b

\* faulty variant of cpuFit: no requirement counts as no fit
cpuFit_ZeroIsMiss(vm, workload) ==
    IF workload.CPURequirements = 0 THEN Zero
    ELSE min(Rat(vm.VCpus, workload.CPURequirements), One)

cpuFit(vm, workload) ==
    IF workload.CPURequirements = 0 THEN One
    ELSE min(Rat(vm.VCpus, workload.CPURequirements), One)

memFit(vm, workload) ==
    IF workload.MemoryRequirements = 0 THEN One
    ELSE min(Rat(vm.MemoryGiB, workload.MemoryRequirements), One)

ioFit(vm, workload) ==
    IF workload.IORequirements = 0 THEN One
    ELSE min(Rat(vm.StorageGiB, workload.IORequirements), One)

gpuFit(vm, workload) ==
    IF workload.GPURequirements = 0 THEN One
    ELSE IF vm.GPUCount < workload.GPURequirements THEN Zero
    ELSE IF workload.GPUType # "" /\ ~EqualFold(vm.GPUType, workload.GPUType)
         THEN Zero
    ELSE One

zoneScore(vm, zone) ==
    IF zone = "" THEN One
    ELSE IF zone \in vm.AvailabilityZones THEN One
    ELSE Zero

boolScore(vmHas, required) ==
    IF ~required THEN One
    ELSE IF vmHas THEN One
    ELSE Zero

\* faulty variant of ComputeFit: the io dimension is left out
ComputeFit_NoIO(vm, workload) ==
    LET cpu == cpuFit(vm, workload)
        mem == memFit(vm, workload)
        f1  == IF RLess(mem, cpu) THEN mem ELSE cpu
    IN  IF RLess(One, f1) THEN One ELSE f1

ComputeFit(vm, workload) ==
    LET cpu == cpuFit(vm, workload)
        mem == memFit(vm, workload)
        io  == ioFit(vm, workload)
        f1  == IF RLess(mem, cpu) THEN mem ELSE cpu
        f2  == IF RLess(io, f1) THEN io ELSE f1
    IN  IF RLess(One, f2) THEN One ELSE f2

\* faulty variant of ScoreInstance: the cost term of the cpu, memory and io
\* strategies weighs 0.3 as it does under general
ScoreInstance_HeavyCost(vm, workload, strat) ==
    LET costEfficiency == Rat(100, vm.PricePerHour + 1)
        tail == RAdd(RMul(Pct(30), costEfficiency),
                RAdd(RMul(Pct(10), ComputeFit(vm, workload)),
                RAdd(RMul(Pct(10), zoneScore(vm, workload.Zone)),
                     RMul(Pct(10), gpuFit(vm, workload)))))
    IN  CASE strat = StrategyCPUIntensive ->
               RAdd(RMul(Pct(50), cpuFit(vm, workload)), tail)
          [] strat = StrategyMemoryIntensive ->
               RAdd(RMul(Pct(50), memFit(vm, workload)), tail)
          [] OTHER ->
               RAdd(RMul(Pct(50), ioFit(vm, workload)), tail)

\* faulty variant of ScoreInstance: 1/price without the 0.01, general weights
ScoreInstance_NoEpsilon(vm, workload, strat) ==
    RAdd(RMul(Pct(30), Rat(100, vm.PricePerHour)),
    RAdd(RMul(Pct(20), ComputeFit(vm, workload)),
    RAdd(RMul(Pct(10), zoneScore(vm, workload.Zone)),
         RMul(Pct(10), gpuFit(vm, workload)))))

\* faulty variant of ScoreInstance: the cost term is the price, not its
\* inverse, under the general weights
ScoreInstance_PriceUp(vm, workload, strat) ==
    RAdd(RMul(Pct(30), Rat(vm.PricePerHour + 1, 100)),
    RAdd(RMul(Pct(20), ComputeFit(vm, workload)),
    RAdd(RMul(Pct(10), zoneScore(vm, workload.Zone)),
    RAdd(RMul(Pct(10), gpuFit(vm, workload)),
    RAdd(RMul(Pct(10), boolScore(vm.EphemeralOSDisk, workload.RequireEphemeralOS)),
    RAdd(RMul(Pct(10), boolScore(vm.NestedVirtualization, workload.RequireNestedVirt)),
    RAdd(RMul(Pct(5), boolScore(vm.SpotSupported, workload.RequireSpot)),
         RMul(Pct(5), boolScore(vm.ConfidentialComputing,
                                workload.RequireConfidential)))))))))

\* faulty variant of ScoreInstance: the price alone decides
ScoreInstance_CostOnly(vm, workload, strat) ==
    Rat(100, vm.PricePerHour + 1)

ScoreInstance(vm, workload, strat) ==
    LET costEfficiency    == Rat(100, vm.PricePerHour + 1)
        resourceFit       == ComputeFit(vm, workload)
        availabilityScore == zoneScore(vm, workload.Zone)
        gpuScore          == gpuFit(vm, workload)
        ephemeralScore    == boolScore(vm.EphemeralOSDisk, workload.RequireEphemeralOS)
        nestedVirtScore   == boolScore(vm.NestedVirtualization, workload.RequireNestedVirt)
        spotScore         == boolScore(vm.SpotSupported, workload.RequireSpot)
        confidentialScore == boolScore(vm.ConfidentialComputing, workload.RequireConfidential)
        tail == RAdd(RMul(Pct(20), costEfficiency),
                RAdd(RMul(Pct(10), resourceFit),
                RAdd(RMul(Pct(10), availabilityScore),
                     RMul(Pct(10), gpuScore))))
    IN  CASE strat = StrategyCPUIntensive ->
               RAdd(RMul(Pct(50), cpuFit(vm, workload)), tail)
          [] strat = StrategyMemoryIntensive ->
               RAdd(RMul(Pct(50), memFit(vm, workload)), tail)
          [] strat = StrategyIOIntensive ->
               RAdd(RMul(Pct(50), ioFit(vm, workload)), tail)
          [] OTHER ->
               RAdd(RMul(Pct(30), costEfficiency),
               RAdd(RMul(Pct(20), resourceFit),
               RAdd(RMul(Pct(10), availabilityScore),
               RAdd(RMul(Pct(10), gpuScore),
               RAdd(RMul(Pct(10), ephemeralScore),
               RAdd(RMul(Pct(10), nestedVirtScore),
               RAdd(RMul(Pct(5), spotScore),
                    RMul(Pct(5), confidentialScore))))))))

----------------------------------------------------------------------------
(* Ranking and selection *)

\* faulty variant of Swap: the element at i is overwritten, not exchanged
Swap_Overwrite(s, i, j) == [s EXCEPT ![i] = s[j]]

Swap(s, i, j) == [s EXCEPT ![i] = s[j], ![j] = s[i]]

\* faulty variant of RankBest: >= instead of >, the last maximum wins
RECURSIVE RankBest_LastMax(_, _, _, _, _)
RankBest_LastMax(out, j, best, workload, strat) ==
    IF j > Len(out) THEN best
    ELSE IF RLeq(ScoreInstance(out[best], workload, strat),
                 ScoreInstance(out[j], workload, strat))
         THEN RankBest_LastMax(out, j + 1, j, workload, strat)
         ELSE RankBest_LastMax(out, j + 1, best, workload, strat)

\* inner loop of RankInstanceTypes: for j := from; j < len(out); j++
RECURSIVE RankBest(_, _, _, _, _)
RankBest(out, j, best, workload, strat) ==
    IF j > Len(out) THEN best
    ELSE IF RLess(ScoreInstance(out[best], workload, strat),
                  ScoreInstance(out[j], workload, strat))
         THEN RankBest(out, j + 1, j, workload, strat)
         ELSE RankBest(out, j + 1, best, workload, strat)

\* outer loop of RankInstanceTypes: selection sort with swaps
RECURSIVE RankFrom(_, _, _, _)
RankFrom(out, i, workload, strat) ==
    IF i > Len(out) THEN out
    ELSE RankFrom(Swap(out, i, RankBest(out, i + 1, i, workload, strat)),
                  i + 1, workload, strat)

RankInstanceTypes(cands, workload, strat) == RankFrom(cands, 1, workload, strat)

MinusOne == [n |-> -1, d |-> 1]

selectWithStrategy(cands, workload, strat) ==
    LET filtered == FilterInstanceTypes(cands, workload, StandardFilters)
        ranked   == RankInstanceTypes(filtered, workload, strat)
    IN  IF Len(ranked) = 0
        THEN [vm |-> ZeroSpec, score |-> MinusOne]
        ELSE [vm |-> ranked[1],
              score |-> ScoreInstance(ranked[1], workload, strat)]

\* SelectBestInstanceWithStrategy: the selector chosen by the switch
SelectorFor(strat) ==
    CASE strat = StrategyCPUIntensive    -> StrategyCPUIntensive
      [] strat = StrategyMemoryIntensive -> StrategyMemoryIntensive
      [] strat = StrategyIOIntensive     -> StrategyIOIntensive
      [] OTHER                           -> StrategyGeneralPurpose

----------------------------------------------------------------------------
(* Bin-packing helpers *)

\* CPURequirements + int(MemoryRequirements)
Demand(w) == w.CPURequirements + (w.MemoryRequirements \div MemScale)

\* faulty variant of SortInner: the comparison is turned round
RECURSIVE SortInner_Ascending(_, _, _)
SortInner_Ascending(s, i, j) ==
    IF j > Len(s) THEN s
    ELSE SortInner_Ascending(
             IF Demand(s[j].w) < Demand(s[i].w) THEN Swap(s, i, j) ELSE s,
             i, j + 1)

\* The sort at the head of BinPackWorkloads, on elements [w, pos] where pos
\* is the ghost input position: for j := i+1 .. : swap when sorted[j] > sorted[i]
RECURSIVE SortInner(_, _, _)
SortInner(s, i, j) ==
    IF j > Len(s) THEN s
    ELSE SortInner(IF Demand(s[j].w) > Demand(s[i].w) THEN Swap(s, i, j) ELSE s,
                   i, j + 1)

RECURSIVE SortOuter(_, _)
SortOuter(s, i) ==
    IF i > Len(s) THEN s ELSE SortOuter(SortInner(s, i, i + 1), i + 1)

SortWorkloads(ws) ==
    SortOuter([i \in 1..Len(ws) |-> [w |-> ws[i], pos |-> i]], 1)

\* first index with unpacked[i] = FALSE, or -1
NextIdx(unp) ==
    IF \E i \in 1..Len(unp) : ~unp[i]
    THEN CHOOSE i \in 1..Len(unp) :
             ~unp[i] /\ \A k \in 1..(i - 1) : unp[k]
    ELSE -1

\* faulty variant of GreedyPack: the memory test is left out
RECURSIVE GreedyPack_NoMemCheck(_, _, _, _)
GreedyPack_NoMemCheck(srt, org, i, st) ==
    IF i > Len(srt) THEN st
    ELSE IF st.unpacked[i] THEN GreedyPack_NoMemCheck(srt, org, i + 1, st)
    ELSE IF srt[i].CPURequirements <= st.remainingCPU
         THEN GreedyPack_NoMemCheck(srt, org, i + 1,
                  [packed       |-> Append(st.packed, srt[i]),
                   pos          |-> Append(st.pos, org[i]),
                   remainingCPU |-> st.remainingCPU - srt[i].CPURequirements,
                   remainingMem |-> st.remainingMem - srt[i].MemoryRequirements,
                   unpacked     |-> [st.unpacked EXCEPT ![i] = TRUE]])
         ELSE GreedyPack_NoMemCheck(srt, org, i + 1, st)

\* faulty variant of GreedyPack: the scan ends at the first workload that
\* does not fit
RECURSIVE GreedyPack_StopAtMiss(_, _, _, _)
GreedyPack_StopAtMiss(srt, org, i, st) ==
    IF i > Len(srt) THEN st
    ELSE IF st.unpacked[i] THEN GreedyPack_StopAtMiss(srt, org, i + 1, st)
    ELSE IF srt[i].CPURequirements <= st.remainingCPU
            /\ srt[i].MemoryRequirements <= st.remainingMem
         THEN GreedyPack_StopAtMiss(srt, org, i + 1,
                  [packed       |-> Append(st.packed, srt[i]),
                   pos          |-> Append(st.pos, org[i]),
                   remainingCPU |-> st.remainingCPU - srt[i].CPURequirements,
                   remainingMem |-> st.remainingMem - srt[i].MemoryRequirements,
                   unpacked     |-> [st.unpacked EXCEPT ![i] = TRUE]])
         ELSE st

\* for i, w := range sorted: the greedy co-packing of one machine
RECURSIVE GreedyPack(_, _, _, _)
GreedyPack(srt, org, i, st) ==
    IF i > Len(srt) THEN st
    ELSE IF st.unpacked[i] THEN GreedyPack(srt, org, i + 1, st)
    ELSE IF srt[i].CPURequirements <= st.remainingCPU
            /\ srt[i].MemoryRequirements <= st.remainingMem
         THEN GreedyPack(srt, org, i + 1,
                  [packed       |-> Append(st.packed, srt[i]),
                   pos          |-> Append(st.pos, org[i]),
                   remainingCPU |-> st.remainingCPU - srt[i].CPURequirements,
                   remainingMem |-> st.remainingMem - srt[i].MemoryRequirements,
                   unpacked     |-> [st.unpacked EXCEPT ![i] = TRUE]])
         ELSE GreedyPack(srt, org, i + 1, st)

\* faulty variant of PackOnto: the packed workloads are not marked
PackOnto_NoMark(vm, srt, org, unp) ==
    [GreedyPack(srt, org, 1,
         [packed |-> <<>>, pos |-> <<>>, remainingCPU |-> vm.VCpus,
          remainingMem |-> vm.MemoryGiB, unpacked |-> unp])
     EXCEPT !.unpacked = unp]

PackOnto(vm, srt, org, unp) ==
    GreedyPack(srt, org, 1,
        [packed |-> <<>>, pos |-> <<>>, remainingCPU |-> vm.VCpus,
         remainingMem |-> vm.MemoryGiB, unpacked |-> unp])

\* quota[fam] of a Go map: the zero value when the key is absent
QuotaGet(q, fam) == IF fam \in DOMAIN q.m THEN q.m[fam] ELSE 0

\* faulty variant of OverQuota: an entry of 0, or a missing one, is a limit
OverQuota_ZeroCounts(q, used, vm) ==
    /\ ~q.isNil
    /\ used[vm.Family] + vm.VCpus > QuotaGet(q, vm.Family)

\* quota != nil && quota[fam] > 0 && usedVCpus[fam]+bestVM.VCpus > quota[fam]
OverQuota(q, used, vm) ==
    /\ ~q.isNil
    /\ QuotaGet(q, vm.Family) > 0
    /\ used[vm.Family] + vm.VCpus > QuotaGet(q, vm.Family)

\* candidates with c.Family != fam, in order
DropFamily(cands, fam) == SelectSeq(cands, LAMBDA c : c.Family # fam)

\* faulty variant of NaiveScan: <= on the memory tie-break, the last of
\* several equally small machines wins
RECURSIVE NaiveScan_LastTie(_, _, _, _)
NaiveScan_LastTie(cands, k, w, acc) ==
    IF k > Len(cands) THEN acc
    ELSE LET vm == cands[k]
         IN  IF vm.VCpus >= w.CPURequirements
                /\ vm.MemoryGiB >= w.MemoryRequirements
                /\ (~acc.bestFound
                    \/ vm.VCpus < acc.best.VCpus
                    \/ (vm.VCpus = acc.best.VCpus
                        /\ vm.MemoryGiB <= acc.best.MemoryGiB))
             THEN NaiveScan_LastTie(cands, k + 1, w, [best |-> vm, bestFound |-> TRUE])
             ELSE NaiveScan_LastTie(cands, k + 1, w, acc)

\* BinPackWorkloadsNaive, inner loop: for _, vm := range candidates
RECURSIVE NaiveScan(_, _, _, _)
NaiveScan(cands, k, w, acc) ==
    IF k > Len(cands) THEN acc
    ELSE LET vm == cands[k]
         IN  IF vm.VCpus >= w.CPURequirements
                /\ vm.MemoryGiB >= w.MemoryRequirements
                /\ (~acc.bestFound
                    \/ vm.VCpus < acc.best.VCpus
                    \/ (vm.VCpus = acc.best.VCpus
                        /\ vm.MemoryGiB < acc.best.MemoryGiB))
             THEN NaiveScan(cands, k + 1, w, [best |-> vm, bestFound |-> TRUE])
             ELSE NaiveScan(cands, k + 1, w, acc)

NaiveSmallest(cands, w) ==
    NaiveScan(cands, 1, w, [best |-> ZeroSpec, bestFound |-> FALSE])

\* BinPackWorkloadsNaive, body of the outer loop for workloads[i]
NaiveBody(res, ws, cands, i) ==
    LET r == NaiveSmallest(cands, ws[i])
    IN  IF r.bestFound
        THEN Append(res, [InstanceType |-> r.best,
                          Workloads    |-> <<ws[i]>>,
                          pos          |-> <<i>>])
        ELSE res

RECURSIVE NaiveFrom(_, _, _, _)
NaiveFrom(res, ws, cands, i) ==
    IF i > Len(ws) THEN res
    ELSE NaiveFrom(NaiveBody(res, ws, cands, i), ws, cands, i + 1)

BinPackWorkloadsNaive(ws, cands) == NaiveFrom(<<>>, ws, cands, 1)

----------------------------------------------------------------------------
(* Inputs: catalogs and workload sets the loaders can produce *)

Machine(name, vcpus, mem, storage, price, family, zones) ==
    [ZeroSpec EXCEPT !.Name = name, !.VCpus = vcpus, !.MemoryGiB = mem,
                     !.StorageGiB = storage, !.PricePerHour = price,
                     !.Family = family, !.AvailabilityZones = zones]

Workload(cpu, mem) ==
    [ZeroWorkload EXCEPT !.CPURequirements = cpu, !.MemoryRequirements = mem]

\* sequences of pairwise distinct elements of S, of length <= n
DistinctSeqs(S, n) ==
    {s \in UNION {[1..k -> S] : k \in 0..n} :
        \A i, j \in DOMAIN s : i # j => s[i] # s[j]}

Seqs(S, n) == UNION {[1..k -> S] : k \in 0..n}

Families == {"D", "E"}

PackMachines ==
    { Machine("D2", 2, 8, 50, 9, "D", {"1", "2"}),
      [Machine("D2s", 2, 8, 50, 9, "D", {"1", "2"}) EXCEPT !.SpotSupported = TRUE],
      Machine("D4", 4, 16, 100, 19, "D", {"1", "2"}),
      Machine("E2", 2, 16, 50, 14, "E", {"1", "3"}) }

PackWorkloads ==
    { Workload(1, 5),
      Workload(4, 4),
      [Workload(1, 4) EXCEPT !.Zone = "3"] }

NilQuota == [isNil |-> TRUE, m |-> <<>>]

QuotaOf(m) == [isNil |-> FALSE, m |-> m]

Quotas ==
    { NilQuota,
      QuotaOf([f \in {"D"} |-> 0]),
      QuotaOf([f \in {"D", "E"} |-> 2]) }

SelMachines ==
    { Machine("Standard_D2_v4", 2, 16, 50, 9, "Standard_D", {"1", "2"}),
      Machine("Standard_D2_v5", 2, 16, 50, 9, "Standard_D", {"1", "2"}),
      [Machine("Standard_E4_v4", 4, 64, 100, 19, "Standard_E", {"1", "2", "3"})
          EXCEPT !.EphemeralOSDisk = TRUE, !.TrustedLaunch = TRUE,
                 !.AcceleratedNetworking = TRUE, !.MaxPods = 30],
      [Machine("Standard_NC6", 6, 112, 380, 49, "Standard_NC", {"2"})
          EXCEPT !.GPUCount = 1, !.GPUType = "NVIDIA"],
      [Machine("Standard_NV6", 16, 56, 380, 49, "Standard_NV", {"1", "3"})
          EXCEPT !.GPUCount = 2, !.GPUType = "AMD", !.MaxPods = 10],
      [Machine("Standard_B1", 1, 2, 4, 4, "Standard_B", {"1", "3"})
          EXCEPT !.MaxPods = 10] }

Cap(key, val) == [k \in {key} |-> val]

SelWorkloads ==
    LET plain == Workload(2, 14)
        gpu   == [Workload(4, 32) EXCEPT !.GPURequirements = 1]
    IN  { plain,
          ZeroWorkload,
          Workload(16, 14),
          Workload(2, 100),
          [plain EXCEPT !.Zone = "3"],
          [plain EXCEPT !.Zone = "9"],
          gpu,
          [gpu EXCEPT !.GPUType = "nvidia"],
          [gpu EXCEPT !.GPURequirements = 2, !.GPUType = "NVIDIA"],
          [plain EXCEPT !.RequireEphemeralOS = TRUE],
          [plain EXCEPT !.RequireSpot = TRUE],
          [plain EXCEPT !.IORequirements = 100],
          [plain EXCEPT !.Capabilities = Cap("TrustedLaunch", StrTrue)],
          [plain EXCEPT !.Capabilities = Cap("TrustedLaunch", StrFalse)],
          [plain EXCEPT !.Capabilities = Cap("AcceleratedNetworking", StrTrue)],
          [plain EXCEPT !.Capabilities = Cap("MaxPods", <<"2", "0">>)],
          [plain EXCEPT !.Capabilities = Cap("MaxPods", <<"x">>)] }

\* a SelectionStrategy is any string; this one is none of the four constants
StrategyUnknown == "burst"

NoResult == [vm |-> ZeroSpec, score |-> Zero]

\* no pure function is called directly
NoArgs == <<>>

----------------------------------------------------------------------------
(* Bin-packing runs: BinPackWorkloads, BinPackWorkloadsWithQuota,           *)
(* BinPackWorkloadsNaive                                                    *)

Init ==
    /\ op \in {"BinPackWorkloads", "BinPackWorkloadsWithQuota",
               "BinPackWorkloadsNaive"}
    /\ catalog \in DistinctSeqs(PackMachines, MaxCatalog)
    /\ workloads \in Seqs(PackWorkloads, MaxWorkloads)
    /\ strategy \in IF op = "BinPackWorkloadsNaive"
                    THEN {StrategyGeneralPurpose} ELSE Strategies
    /\ quota \in IF op = "BinPackWorkloadsWithQuota" THEN Quotas ELSE {NilQuota}
    /\ pc = IF op = "BinPackWorkloadsNaive" THEN "naive" ELSE "sort"
    /\ sorted = <<>>
    /\ origin = <<>>
    /\ unpacked = <<>>
    /\ candidates = catalog
    /\ usedVCpus = [f \in Families |-> 0]
    /\ bestVM = ZeroSpec
    /\ vms = <<>>
    /\ ni = 1
    /\ selResult = NoResult
    /\ args = NoArgs
    /\ ret = NoArgs

\* faulty variant of Sort: the caller's sequence is sorted in place
Sort_InPlace ==
    /\ pc = "sort"
    /\ LET t == SortWorkloads(workloads)
       IN  /\ sorted' = [i \in 1..Len(t) |-> t[i].w]
           /\ workloads' = [i \in 1..Len(t) |-> t[i].w]
           /\ origin' = [i \in 1..Len(t) |-> t[i].pos]
           /\ unpacked' = [i \in 1..Len(t) |-> FALSE]
    /\ pc' = "loop"
    /\ UNCHANGED <<callVars, op, catalog, strategy, quota, candidates,
                   usedVCpus, bestVM, vms, ni, selResult>>

\* sorted := copy of workloads, sorted; unpacked := all false
Sort ==
    /\ pc = "sort"
    /\ LET t == SortWorkloads(workloads)
       IN  /\ sorted' = [i \in 1..Len(t) |-> t[i].w]
           /\ origin' = [i \in 1..Len(t) |-> t[i].pos]
           /\ unpacked' = [i \in 1..Len(t) |-> FALSE]
    /\ pc' = "loop"
    /\ UNCHANGED <<callVars, op, catalog, workloads, strategy, quota, candidates,
                   usedVCpus, bestVM, vms, ni, selResult>>

\* nextIdx == -1: break, return result
AllPacked ==
    /\ pc = "loop"
    /\ NextIdx(unpacked) = -1
    /\ pc' = "done"
    /\ UNCHANGED <<callVars, op, catalog, workloads, strategy, quota, sorted, origin,
                   unpacked, candidates, usedVCpus, bestVM, vms, ni, selResult>>

\* workload := sorted[nextIdx]; bestVM, _ := selectWithStrategy(...)
SelectSeed ==
    /\ pc = "loop"
    /\ NextIdx(unpacked) # -1
    /\ bestVM' = selectWithStrategy(candidates, sorted[NextIdx(unpacked)],
                                    strategy).vm
    /\ pc' = "selected"
    /\ UNCHANGED <<callVars, op, catalog, workloads, strategy, quota, sorted, origin,
                   unpacked, candidates, usedVCpus, vms, ni, selResult>>

\* faulty variant of NoSuitableVM: skip the seed and go on with the next one
NoSuitableVM_Skip ==
    /\ pc = "selected"
    /\ bestVM.Name = ""
    /\ unpacked' = [unpacked EXCEPT ![NextIdx(unpacked)] = TRUE]
    /\ pc' = "loop"
    /\ UNCHANGED <<callVars, op, catalog, workloads, strategy, quota, sorted, origin,
                   candidates, usedVCpus, bestVM, vms, ni, selResult>>

\* bestVM.Name == "": break, return result
NoSuitableVM ==
    /\ pc = "selected"
    /\ bestVM.Name = ""
    /\ pc' = "done"
    /\ UNCHANGED <<callVars, op, catalog, workloads, strategy, quota, sorted, origin,
                   unpacked, candidates, usedVCpus, bestVM, vms, ni, selResult>>

\* BinPackWorkloadsWithQuota only: the family is over quota, drop it, continue
PruneFamily ==
    /\ pc = "selected"
    /\ op = "BinPackWorkloadsWithQuota"
    /\ bestVM.Name # ""
    /\ OverQuota(quota, usedVCpus, bestVM)
    /\ candidates' = DropFamily(candidates, bestVM.Family)
    /\ pc' = "loop"
    /\ UNCHANGED <<callVars, op, catalog, workloads, strategy, quota, sorted, origin,
                   unpacked, usedVCpus, bestVM, vms, ni, selResult>>

\* pack as many workloads as fit onto bestVM and append the PackedVM
Commit ==
    /\ pc = "selected"
    /\ bestVM.Name # ""
    /\ ~(op = "BinPackWorkloadsWithQuota" /\ OverQuota(quota, usedVCpus, bestVM))
    /\ Len(vms) < MaxVMs
    /\ LET g == PackOnto(bestVM, sorted, origin, unpacked)
       IN  /\ unpacked' = g.unpacked
           /\ vms' = Append(vms, [InstanceType |-> bestVM,
                                  Workloads    |-> g.packed,
                                  pos          |-> g.pos])
    /\ usedVCpus' = IF op = "BinPackWorkloadsWithQuota"
                    THEN [usedVCpus EXCEPT ![bestVM.Family] = @ + bestVM.VCpus]
                    ELSE usedVCpus
    /\ pc' = "loop"
    /\ UNCHANGED <<callVars, op, catalog, workloads, strategy, quota, sorted, origin,
                   candidates, bestVM, ni, selResult>>

\* BinPackWorkloadsNaive: one pass of  for _, w := range workloads
NaiveStep ==
    /\ pc = "naive"
    /\ ni <= Len(workloads)
    /\ vms' = NaiveBody(vms, workloads, candidates, ni)
    /\ ni' = ni + 1
    /\ UNCHANGED <<callVars, op, catalog, workloads, strategy, quota, pc, sorted, origin,
                   unpacked, candidates, usedVCpus, bestVM, selResult>>

NaiveReturn ==
    /\ pc = "naive"
    /\ ni > Len(workloads)
    /\ pc' = "done"
    /\ UNCHANGED <<callVars, op, catalog, workloads, strategy, quota, sorted, origin,
                   unpacked, candidates, usedVCpus, bestVM, vms, ni, selResult>>

Next ==
    \/ Sort
    \/ AllPacked
    \/ SelectSeed
    \/ NoSuitableVM
    \/ PruneFamily
    \/ Commit
    \/ NaiveStep
    \/ NaiveReturn

Spec == Init /\ [][Next]_vars

----------------------------------------------------------------------------
(* Single selections: selectWithStrategy, SelectBestInstance,               *)
(* SelectBestInstanceWithStrategy                                           *)

InitSel ==
    /\ op \in {"selectWithStrategy", "SelectBestInstance",
               "SelectBestInstanceWithStrategy"}
    /\ catalog \in DistinctSeqs(SelMachines, MaxSelCatalog)
    /\ workloads \in {<<w>> : w \in SelWorkloads}
    /\ strategy \in IF op = "SelectBestInstance"
                    THEN {StrategyGeneralPurpose}
                    ELSE Strategies \cup {StrategyUnknown}
    /\ quota = NilQuota
    /\ pc = "call"
    /\ sorted = <<>>
    /\ origin = <<>>
    /\ unpacked = <<>>
    /\ candidates = catalog
    /\ usedVCpus = [f \in Families |-> 0]
    /\ bestVM = ZeroSpec
    /\ vms = <<>>
    /\ ni = 1
    /\ selResult = NoResult
    /\ args = NoArgs
    /\ ret = NoArgs

SelectWithStrategy ==
    /\ pc = "call"
    /\ op = "selectWithStrategy"
    /\ selResult' = selectWithStrategy(catalog, workloads[1], strategy)
    /\ pc' = "done"
    /\ UNCHANGED <<callVars, op, catalog, workloads, strategy, quota, sorted, origin,
                   unpacked, candidates, usedVCpus, bestVM, vms, ni>>

SelectBestInstance ==
    /\ pc = "call"
    /\ op = "SelectBestInstance"
    /\ selResult' = selectWithStrategy(catalog, workloads[1], StrategyGeneralPurpose)
    /\ pc' = "done"
    /\ UNCHANGED <<callVars, op, catalog, workloads, strategy, quota, sorted, origin,
                   unpacked, candidates, usedVCpus, bestVM, vms, ni>>

SelectBestInstanceWithStrategy ==
    /\ pc = "call"
    /\ op = "SelectBestInstanceWithStrategy"
    /\ selResult' = selectWithStrategy(catalog, workloads[1], SelectorFor(strategy))
    /\ pc' = "done"
    /\ UNCHANGED <<callVars, op, catalog, workloads, strategy, quota, sorted, origin,
                   unpacked, candidates, usedVCpus, bestVM, vms, ni>>

NextSel ==
    \/ SelectWithStrategy
    \/ SelectBestInstance
    \/ SelectBestInstanceWithStrategy

SpecSel == InitSel /\ [][NextSel]_vars

----------------------------------------------------------------------------
(* Vocabulary of the properties *)

\* the machine has the raw capacity for the workload on its own
Holds(m, w) ==
    m.VCpus >= w.CPURequirements /\ m.MemoryGiB >= w.MemoryRequirements

\* the workload's CPU or memory requirement exceeds every entry of cat
ExceedsAll(cat, w) ==
    \/ \A i \in 1..Len(cat) : w.CPURequirements > cat[i].VCpus
    \/ \A i \in 1..Len(cat) : w.MemoryRequirements > cat[i].MemoryGiB

\* all six standard predicates
PassesAll(m, w) ==
    /\ FilterByZone(m, w)
    /\ FilterByGPU(m, w)
    /\ FilterByEphemeralOS(m, w)
    /\ FilterByTrustedLaunch(m, w)
    /\ FilterByAcceleratedNetworking(m, w)
    /\ FilterByMaxPods(m, w)

Survivors(cat, w) == {i \in 1..Len(cat) : PassesAll(cat[i], w)}

Sentinel == [vm |-> ZeroSpec, score |-> MinusOne]

\* the strategy the running select entry point scores with
EffStrategy ==
    CASE op = "SelectBestInstance" -> StrategyGeneralPurpose
      [] op = "SelectBestInstanceWithStrategy" -> SelectorFor(strategy)
      [] OTHER -> strategy

RECURSIVE SumCPU(_)
SumCPU(ws) ==
    IF ws = <<>> THEN 0 ELSE Head(ws).CPURequirements + SumCPU(Tail(ws))

RECURSIVE SumMem(_)
SumMem(ws) ==
    IF ws = <<>> THEN 0 ELSE Head(ws).MemoryRequirements + SumMem(Tail(ws))

\* the slots (machine, rank) of the result that hold input position p
SlotsOf(p) ==
    {sl \in UNION {{<<v, k>> : k \in 1..Len(vms[v].pos)} : v \in 1..Len(vms)} :
        vms[sl[1]].pos[sl[2]] = p}

Packing == op \in {"BinPackWorkloads", "BinPackWorkloadsWithQuota"}

\* sorted positions that are still unplaced
Unplaced == {i \in 1..Len(unpacked) : ~unpacked[i]}

\* vCPUs of the committed machines of family f
RECURSIVE FamilyVCpus(_, _)
FamilyVCpus(res, f) ==
    IF res = <<>> THEN 0
    ELSE (IF Head(res).InstanceType.Family = f
          THEN Head(res).InstanceType.VCpus ELSE 0) + FamilyVCpus(Tail(res), f)

\* two different input workloads fit together on one catalog machine
CanShare ==
    \E i, j \in 1..Len(workloads), m \in 1..Len(catalog) :
        /\ i # j
        /\ workloads[i].CPURequirements + workloads[j].CPURequirements
              <= catalog[m].VCpus
        /\ workloads[i].MemoryRequirements + workloads[j].MemoryRequirements
              <= catalog[m].MemoryGiB

----------------------------------------------------------------------------
(* C1 *)

\* C1: BinPackWorkloads terminates on every finite input: a pass of its main
\* loop either ends the run or places at least one more workload, so no pass
\* can repeat; in particular a seed whose demand exceeds every catalog entry
\* ends the run instead of committing a machine for it.
C1_PackTerminates ==
    [][(op = "BinPackWorkloads" /\ pc = "selected")
          => (pc' = "done" \/ unpacked' # unpacked)]_vars

----------------------------------------------------------------------------
(* C2 *)

\* C2: in every state of a packing run (with or without quota) each input
\* position is assigned to at most one PackedVM, every assigned workload is
\* the input workload of its position, and per PackedVM the assigned CPU sum
\* is <= VCpus and the assigned memory sum is <= MemoryGiB.
C2_PackingConservation ==
    Packing =>
        /\ \A p \in 1..Len(workloads) : Cardinality(SlotsOf(p)) <= 1
        /\ \A v \in 1..Len(vms) :
              /\ Len(vms[v].pos) = Len(vms[v].Workloads)
              /\ \A k \in 1..Len(vms[v].pos) :
                    /\ vms[v].pos[k] \in 1..Len(workloads)
                    /\ vms[v].Workloads[k] = workloads[vms[v].pos[k]]
              /\ SumCPU(vms[v].Workloads) <= vms[v].InstanceType.VCpus
              /\ SumMem(vms[v].Workloads) <= vms[v].InstanceType.MemoryGiB

\* a finished run with two machines, one of them shared by two workloads
\* and one whose memory would not take a further workload that its CPU takes
C2_Witness ==
    /\ Packing
    /\ pc = "done"
    /\ Len(vms) >= 2
    /\ \E v \in 1..Len(vms) : Len(vms[v].Workloads) >= 2
    /\ \E v \in 1..Len(vms), i \in 1..Len(workloads) :
          /\ SlotsOf(i) # {}
          /\ SumCPU(vms[v].Workloads) + workloads[i].CPURequirements
                <= vms[v].InstanceType.VCpus
          /\ SumMem(vms[v].Workloads) + workloads[i].MemoryRequirements
                > vms[v].InstanceType.MemoryGiB

----------------------------------------------------------------------------
(* C3 *)

\* C3: when the workload's CPU or memory requirement exceeds the capacity of
\* every catalog entry, select returns the "none" sentinel (empty Name,
\* negative score) under every strategy.
C3_OversizeGivesSentinel ==
    (pc = "done" /\ ExceedsAll(catalog, workloads[1]))
        => (selResult.vm.Name = "" /\ selResult.score.n < 0)

----------------------------------------------------------------------------
(* C4 *)

----------------------------------------------------------------------------
(* C5 *)

\* C5: when at least one candidate survives filtering, select returns a
\* survivor whose score under the strategy is >= the score of every other
\* survivor, the first-listed one among those that tie for the highest score,
\* and the score it returns is ScoreInstance of the returned machine.
C5_BestFirstListed ==
    (pc = "done" /\ Survivors(catalog, workloads[1]) # {}) =>
        \E i \in Survivors(catalog, workloads[1]) :
            LET w  == workloads[1]
                si == ScoreInstance(catalog[i], w, EffStrategy)
            IN  /\ selResult.vm = catalog[i]
                /\ selResult.score = si
                /\ \A j \in Survivors(catalog, w) :
                      LET sj == ScoreInstance(catalog[j], w, EffStrategy)
                      IN  /\ RLeq(sj, si)
                          /\ j < i => RLess(sj, si)

\* two survivors tie exactly for the highest score, behind a survivor of
\* lower score, and the first of the two is returned
C5_Witness ==
    /\ pc = "done"
    /\ \E i, j, k \in Survivors(catalog, workloads[1]) :
          /\ k < i
          /\ i < j
          /\ selResult.vm = catalog[i]
          /\ ScoreInstance(catalog[j], workloads[1], EffStrategy) = selResult.score
          /\ RLess(ScoreInstance(catalog[k], workloads[1], EffStrategy),
                   selResult.score)

----------------------------------------------------------------------------
(* C6 *)

\* C6: a machine returned by select satisfies the workload's hard
\* constraints: it serves the workload's zone when one is set; with a GPU
\* requirement > 0 it has at least that many GPUs and, when a GPU type is
\* given, that type up to letter case; it supports ephemeral OS disk when
\* required, and trusted launch / accelerated networking when the workload's
\* capability entry is "true".
C6_HardConstraints ==
    (pc = "done" /\ selResult.vm.Name # "") =>
        LET w == workloads[1]
            m == selResult.vm
        IN  /\ w.Zone # "" => w.Zone \in m.AvailabilityZones
            /\ w.GPURequirements > 0 =>
                  /\ m.GPUCount >= w.GPURequirements
                  /\ w.GPUType # "" => ToLower(m.GPUType) = ToLower(w.GPUType)
            /\ w.RequireEphemeralOS => m.EphemeralOSDisk
            /\ ("TrustedLaunch" \in DOMAIN w.Capabilities
                  /\ w.Capabilities["TrustedLaunch"] = StrTrue) => m.TrustedLaunch
            /\ ("AcceleratedNetworking" \in DOMAIN w.Capabilities
                  /\ w.Capabilities["AcceleratedNetworking"] = StrTrue)
                  => m.AcceleratedNetworking

\* a machine is returned while a cheaper catalog entry with a strictly higher
\* score violates the zone (or another) constraint of the workload
C6_Witness ==
    /\ pc = "done"
    /\ selResult.vm.Name # ""
    /\ workloads[1].Zone # ""
    /\ \E i \in 1..Len(catalog) :
          /\ workloads[1].Zone \notin catalog[i].AvailabilityZones
          /\ catalog[i].PricePerHour < selResult.vm.PricePerHour
          /\ RLess(selResult.score,
                   ScoreInstance(catalog[i], workloads[1], EffStrategy))

----------------------------------------------------------------------------
(* C7 *)

\* C7: in pack (both variants), when select finds no machine for the current
\* seed the run stops at once: the next step returns, no further PackedVM is
\* committed, nothing more is placed, and every still-unplaced workload (the
\* seed and all later ones) appears in no PackedVM of the result.
C7_FailFast ==
    /\ [][(Packing /\ pc = "selected" /\ bestVM.Name = "")
            => (pc' = "done" /\ vms' = vms /\ unpacked' = unpacked)]_vars
    /\ [](Packing /\ pc = "done" =>
            \A i \in Unplaced : SlotsOf(origin[i]) = {})

\* the run stopped on a seed without machine, after committing a machine,
\* and left unplaced a later workload that a catalog machine could hold
C7_Witness ==
    /\ Packing
    /\ pc = "done"
    /\ bestVM.Name = ""
    /\ Unplaced # {}
    /\ Len(vms) >= 1
    /\ \E i \in Unplaced, m \in 1..Len(catalog) :
          /\ i # NextIdx(unpacked)
          /\ Holds(catalog[m], sorted[i])
          /\ PassesAll(catalog[m], sorted[i])

----------------------------------------------------------------------------
(* C8 *)

\* C8: at every point of a BinPackWorkloadsWithQuota run, for every family
\* with an entry in the QuotaMap (whatever its value, 0 included), the summed
\* VCpus of the committed machines of that family is <= the quota value.
C8_QuotaRespected ==
    op = "BinPackWorkloadsWithQuota" =>
        \A f \in DOMAIN quota.m : FamilyVCpus(vms, f) <= quota.m[f]

----------------------------------------------------------------------------
(* C9 *)

\* C9: when at least two workloads can share a machine, BinPackWorkloads
\* (any strategy) uses at most as many machines as BinPackWorkloadsNaive on
\* the same workloads and catalog.
C9_BaselineDominance ==
    (op = "BinPackWorkloads" /\ CanShare)
        => Len(vms) <= Len(BinPackWorkloadsNaive(workloads, catalog))

----------------------------------------------------------------------------
(* C10 *)

\* machine a is smaller than machine b by (VCpus, then MemoryGiB)
Smaller(a, b) ==
    \/ a.VCpus < b.VCpus
    \/ (a.VCpus = b.VCpus /\ a.MemoryGiB < b.MemoryGiB)

\* input positions before n that some catalog machine can hold
Holdable(n) ==
    {p \in 1..(n - 1) : \E m \in 1..Len(catalog) : Holds(catalog[m], workloads[p])}

\* C10: BinPackWorkloadsNaive treats each workload on its own: the result
\* holds, in input order, exactly one PackedVM per workload that some catalog
\* machine can hold, carrying only that workload, on the first-listed of the
\* machines that are minimal by (VCpus, then MemoryGiB) among those that can
\* hold it; a workload no machine can hold is dropped and the later ones are
\* still processed.
C10_NaiveSmallestFit ==
    op = "BinPackWorkloadsNaive" =>
        /\ Len(vms) = Cardinality(Holdable(ni))
        /\ \A v \in 1..Len(vms) :
              /\ Len(vms[v].pos) = 1
              /\ vms[v].pos[1] \in Holdable(ni)
              /\ vms[v].Workloads = <<workloads[vms[v].pos[1]]>>
              /\ \A u \in 1..(v - 1) : vms[u].pos[1] < vms[v].pos[1]
              /\ \E m \in 1..Len(catalog) :
                    LET w == workloads[vms[v].pos[1]]
                    IN  /\ vms[v].InstanceType = catalog[m]
                        /\ Holds(catalog[m], w)
                        /\ \A k \in 1..Len(catalog) :
                              Holds(catalog[k], w) =>
                                  /\ ~Smaller(catalog[k], catalog[m])
                                  /\ k < m => Smaller(catalog[m], catalog[k])

\* a finished naive run that dropped a workload, still placed a later one,
\* and chose the first of two equally small machines
C10_Witness ==
    /\ op = "BinPackWorkloadsNaive"
    /\ pc = "done"
    /\ \E p \in 1..Len(workloads), v \in 1..Len(vms) :
          /\ p \notin Holdable(ni)
          /\ p < vms[v].pos[1]
    /\ \E v \in 1..Len(vms), m, k \in 1..Len(catalog) :
          /\ m < k
          /\ vms[v].InstanceType = catalog[m]
          /\ catalog[k].VCpus = catalog[m].VCpus
          /\ catalog[k].MemoryGiB = catalog[m].MemoryGiB

----------------------------------------------------------------------------
(* FilterInstanceTypes called directly, with any list of predicates *)

\* selection and packing state while a pure function is called directly
Idle ==
    /\ strategy = StrategyGeneralPurpose
    /\ quota = NilQuota
    /\ sorted = <<>>
    /\ origin = <<>>
    /\ unpacked = <<>>
    /\ candidates = catalog
    /\ usedVCpus = [f \in Families |-> 0]
    /\ bestVM = ZeroSpec
    /\ vms = <<>>
    /\ ni = 1
    /\ selResult = NoResult

idleVars == <<strategy, quota, sorted, origin, unpacked, candidates,
              usedVCpus, bestVM, vms, ni, selResult>>

\* longest list of predicates passed to FilterInstanceTypes
MaxFilters == 2

FilterIds == {StandardFilters[k] : k \in 1..Len(StandardFilters)}

Range(s) == {s[k] : k \in 1..Len(s)}

SelMachine(name) == CHOOSE m \in SelMachines : m.Name = name

\* the whole catalog in two orders, and the empty catalog
FilterCatalogs ==
    { <<>>,
      <<SelMachine("Standard_B1"), SelMachine("Standard_D2_v4"),
        SelMachine("Standard_E4_v4"), SelMachine("Standard_NC6"),
        SelMachine("Standard_NV6"), SelMachine("Standard_D2_v5")>>,
      <<SelMachine("Standard_NV6"), SelMachine("Standard_E4_v4"),
        SelMachine("Standard_D2_v5"), SelMachine("Standard_NC6"),
        SelMachine("Standard_D2_v4"), SelMachine("Standard_B1")>> }

\* workloads on which several predicates reject different machines
FilterWorkloads ==
    LET plain == Workload(2, 14)
    IN  { plain,
          [plain EXCEPT !.Zone = "9"],
          [plain EXCEPT !.Zone = "3", !.GPURequirements = 1],
          [plain EXCEPT !.RequireEphemeralOS = TRUE,
                        !.Capabilities = Cap("TrustedLaunch", StrTrue)
                                         @@ Cap("MaxPods", <<"2", "0">>)],
          [plain EXCEPT !.Zone = "1", !.GPURequirements = 1,
                        !.GPUType = "amd",
                        !.Capabilities = Cap("AcceleratedNetworking", StrTrue)
                                         @@ Cap("MaxPods", <<"2", "0">>)] }

\* two calls on the same candidates and workload: with a list of predicates,
\* then with a list holding the same predicates and possibly more
InitFilter ==
    /\ op = "FilterInstanceTypes"
    /\ catalog \in FilterCatalogs
    /\ workloads \in {<<w>> : w \in FilterWorkloads}
    /\ \E more \in DistinctSeqs(FilterIds, MaxFilters) :
          \E filters \in DistinctSeqs(Range(more), Len(more)) :
              args = [filters |-> filters, more |-> more]
    /\ ret = NoArgs
    /\ pc = "filters"
    /\ Idle

CallFilter ==
    /\ op = "FilterInstanceTypes"
    /\ pc = "filters"
    /\ ret' = [filters |->
                  FilterInstanceTypes(catalog, workloads[1], args.filters)]
    /\ pc' = "more"
    /\ UNCHANGED <<idleVars, op, catalog, workloads, args>>

CallFilterMore ==
    /\ op = "FilterInstanceTypes"
    /\ pc = "more"
    /\ ret' = [filters |-> ret.filters,
               more |-> FilterInstanceTypes(catalog, workloads[1], args.more)]
    /\ pc' = "done"
    /\ UNCHANGED <<idleVars, op, catalog, workloads, args>>

NextFilter ==
    \/ CallFilter
    \/ CallFilterMore

SpecFilter == InitFilter /\ [][NextFilter]_vars

\* positions of the candidates that every predicate of fs accepts
KeptAt(cat, w, fs) ==
    {i \in 1..Len(cat) : \A f \in Range(fs) : ApplyFilter(f, cat[i], w)}

\* out lists the elements of cat at the positions K, in increasing position
ListsInOrder(out, cat, K) ==
    /\ Len(out) = Cardinality(K)
    /\ \A i \in K : out[Cardinality({k \in K : k <= i})] = cat[i]

\* C11: FilterInstanceTypes returns exactly the candidates that every given
\* predicate accepts, in catalog order and nothing else; two lists holding the
\* same predicates in different orders give the same result; with no
\* predicate the whole list is returned.
C11_FilterIsConjunction ==
    (op = "FilterInstanceTypes" /\ pc = "done") =>
        /\ ListsInOrder(ret.filters, catalog,
                        KeptAt(catalog, workloads[1], args.filters))
        /\ ListsInOrder(ret.more, catalog,
                        KeptAt(catalog, workloads[1], args.more))
        /\ Range(args.filters) = Range(args.more) => ret.filters = ret.more
        /\ args.filters = <<>> => ret.filters = catalog

\* two predicates in both orders, each rejecting a machine the other accepts,
\* and a machine surviving both
C11_Witness ==
    /\ op = "FilterInstanceTypes"
    /\ pc = "done"
    /\ Len(args.filters) = 2
    /\ args.more = <<args.filters[2], args.filters[1]>>
    /\ ret.filters # <<>>
    /\ \E i, j \in 1..Len(catalog) :
          /\ ApplyFilter(args.filters[1], catalog[i], workloads[1])
          /\ ~ApplyFilter(args.filters[2], catalog[i], workloads[1])
          /\ ~ApplyFilter(args.filters[1], catalog[j], workloads[1])
          /\ ApplyFilter(args.filters[2], catalog[j], workloads[1])

RECURSIVE IsSubSeq(_, _)
\* a is b with zero or more elements left out
IsSubSeq(a, b) ==
    IF a = <<>> THEN TRUE
    ELSE IF b = <<>> THEN FALSE
    ELSE IF Head(a) = Head(b) THEN IsSubSeq(Tail(a), Tail(b))
    ELSE IsSubSeq(a, Tail(b))

\* C12: filter monotonicity: when every predicate of one list is also in a
\* second list, the result with the second list is a sub-sequence of the
\* result with the first, on the same candidates and workload.
C12_FilterMonotone ==
    (op = "FilterInstanceTypes" /\ pc = "done"
        /\ Range(args.filters) \subseteq Range(args.more)) =>
        IsSubSeq(ret.more, ret.filters)

\* a predicate was added to a non-empty list and removed some, not all, of
\* the survivors
C12_Witness ==
    /\ op = "FilterInstanceTypes"
    /\ pc = "done"
    /\ args.filters # <<>>
    /\ Range(args.filters) \subseteq Range(args.more)
    /\ Range(args.filters) # Range(args.more)
    /\ ret.more # <<>>
    /\ Len(ret.more) < Len(ret.filters)
    /\ Len(ret.filters) < Len(catalog)

----------------------------------------------------------------------------
(* The fit functions called directly *)

\* largest capacity and largest requirement of a dimension
MaxAmount == 3

InitFit ==
    /\ op = "ComputeFit"
    /\ \E c, m, s \in 0..MaxAmount :
          catalog = <<[ZeroSpec EXCEPT !.Name = "vm", !.VCpus = c,
                                       !.MemoryGiB = m, !.StorageGiB = s]>>
    /\ \E c, m, s \in 0..MaxAmount :
          workloads = <<[ZeroWorkload EXCEPT !.CPURequirements = c,
                                             !.MemoryRequirements = m,
                                             !.IORequirements = s]>>
    /\ args = NoArgs
    /\ ret = NoArgs
    /\ pc = "cpuFit"
    /\ Idle

CallCpuFit ==
    /\ op = "ComputeFit"
    /\ pc = "cpuFit"
    /\ ret' = [cpuFit |-> cpuFit(catalog[1], workloads[1])]
    /\ pc' = "memFit"
    /\ UNCHANGED <<idleVars, op, catalog, workloads, args>>

CallMemFit ==
    /\ op = "ComputeFit"
    /\ pc = "memFit"
    /\ ret' = [cpuFit |-> ret.cpuFit,
               memFit |-> memFit(catalog[1], workloads[1])]
    /\ pc' = "ioFit"
    /\ UNCHANGED <<idleVars, op, catalog, workloads, args>>

CallIoFit ==
    /\ op = "ComputeFit"
    /\ pc = "ioFit"
    /\ ret' = [cpuFit |-> ret.cpuFit, memFit |-> ret.memFit,
               ioFit |-> ioFit(catalog[1], workloads[1])]
    /\ pc' = "ComputeFit"
    /\ UNCHANGED <<idleVars, op, catalog, workloads, args>>

CallComputeFit ==
    /\ op = "ComputeFit"
    /\ pc = "ComputeFit"
    /\ ret' = [cpuFit |-> ret.cpuFit, memFit |-> ret.memFit,
               ioFit |-> ret.ioFit,
               ComputeFit |-> ComputeFit(catalog[1], workloads[1])]
    /\ pc' = "done"
    /\ UNCHANGED <<idleVars, op, catalog, workloads, args>>

NextFit ==
    \/ CallCpuFit
    \/ CallMemFit
    \/ CallIoFit
    \/ CallComputeFit

SpecFit == InitFit /\ [][NextFit]_vars

\* the three dimensions of a machine and a workload: capacity, requirement
FitDims(vm, w) ==
    { [cap |-> vm.VCpus,      req |-> w.CPURequirements],
      [cap |-> vm.MemoryGiB,  req |-> w.MemoryRequirements],
      [cap |-> vm.StorageGiB, req |-> w.IORequirements] }

\* the dimension's ratio capacity/requirement reaches 1 (or has no divisor)
Capped(d) == d.req = 0 \/ d.cap >= d.req

\* f = min(cap/req, 1), compared in integers
IsCappedRatio(f, d) ==
    IF Capped(d) THEN f.n = f.d ELSE f.n * d.req = d.cap * f.d

\* f <= min(cap/req, 1), compared in integers
AtMostCappedRatio(f, d) ==
    IF Capped(d) THEN f.n <= f.d ELSE f.n * d.req <= d.cap * f.d

\* C13: for every machine and workload with non-negative capacities and
\* requirements, ComputeFit lies in [0, 1] and equals the least of the three
\* ratios capacity/requirement (cpu, memory, io), each capped at 1.
C13_FitIsMinCappedRatio ==
    (op = "ComputeFit" /\ pc = "done") =>
        LET f    == ret.ComputeFit
            dims == FitDims(catalog[1], workloads[1])
        IN  /\ f.d > 0
            /\ 0 <= f.n
            /\ f.n <= f.d
            /\ \A d \in dims : AtMostCappedRatio(f, d)
            /\ \E d \in dims : IsCappedRatio(f, d)

\* the three ratios are all below 1 and all different, memory the least
C13_Witness ==
    /\ op = "ComputeFit"
    /\ pc = "done"
    /\ RLess(ret.memFit, ret.ioFit)
    /\ RLess(ret.ioFit, ret.cpuFit)
    /\ RLess(ret.cpuFit, One)
    /\ RLess(Zero, ret.memFit)
    /\ ret.ComputeFit = ret.memFit

\* C14: zero-requirement neutrality: a dimension whose requirement is 0 has
\* fit exactly 1 at every capacity, 0 included (nothing is divided by the
\* requirement), and ComputeFit is the least capped ratio of the dimensions
\* with a requirement, 1 when there is none.
C14_ZeroRequirementNeutral ==
    (op = "ComputeFit" /\ pc = "done") =>
        LET vm   == catalog[1]
            w    == workloads[1]
            rest == {d \in FitDims(vm, w) : d.req # 0}
        IN  /\ w.CPURequirements = 0 => ret.cpuFit = One
            /\ w.MemoryRequirements = 0 => ret.memFit = One
            /\ w.IORequirements = 0 => ret.ioFit = One
            /\ rest = {} => ret.ComputeFit = One
            /\ \A d \in rest : AtMostCappedRatio(ret.ComputeFit, d)
            /\ rest # {} => \E d \in rest : IsCappedRatio(ret.ComputeFit, d)

\* no cpu requirement on a machine with no cpu at all, and the other two
\* dimensions short of their requirements
C14_Witness ==
    /\ op = "ComputeFit"
    /\ pc = "done"
    /\ workloads[1].CPURequirements = 0
    /\ catalog[1].VCpus = 0
    /\ workloads[1].MemoryRequirements > catalog[1].MemoryGiB
    /\ workloads[1].IORequirements > catalog[1].StorageGiB
    /\ catalog[1].StorageGiB > 0
    /\ ret.cpuFit = One
    /\ RLess(ret.ComputeFit, One)

----------------------------------------------------------------------------
(* TotalCost and AverageUtilization of a packing result *)

\* faulty variant of TotalCost: a machine type is counted once
TotalCost_PerType(vs) ==
    LET types == {vs[k].InstanceType : k \in 1..Len(vs)}
        RECURSIVE Sum(_)
        Sum(S) == IF S = {} THEN 0
                  ELSE LET t == CHOOSE t \in S : TRUE
                       IN  t.PricePerHour + Sum(S \ {t})
    IN  Sum(types)

RECURSIVE TotalCost(_)
\* in cents per hour
TotalCost(vs) ==
    IF vs = <<>> THEN 0
    ELSE Head(vs).InstanceType.PricePerHour + TotalCost(Tail(vs))

RECURSIVE Totals(_)
\* totalCPU, totalMem, usedCPU, usedMem after the loop over the machines
Totals(vs) ==
    IF vs = <<>>
    THEN [totalCPU |-> 0, totalMem |-> 0, usedCPU |-> 0, usedMem |-> 0]
    ELSE LET t  == Totals(Tail(vs))
             vm == Head(vs)
         IN  [totalCPU |-> vm.InstanceType.VCpus + t.totalCPU,
              totalMem |-> vm.InstanceType.MemoryGiB + t.totalMem,
              usedCPU  |-> SumCPU(vm.Workloads) + t.usedCPU,
              usedMem  |-> SumMem(vm.Workloads) + t.usedMem]

\* percentages, as exact fractions
AverageUtilization(vs) ==
    LET t == Totals(vs)
    IN  [cpuUtil |-> IF t.totalCPU > 0
                     THEN RMul(Rat(t.usedCPU, t.totalCPU), Rat(100, 1))
                     ELSE Zero,
         memUtil |-> IF t.totalMem > 0
                     THEN RMul(Rat(t.usedMem, t.totalMem), Rat(100, 1))
                     ELSE Zero]

\* longest packing result handed to the metrics
MaxReportVMs == 2

\* machines with and without capacity
ReportMachines ==
    { Machine("D2", 2, 8, 50, 9, "D", {"1"}),
      Machine("D4", 4, 16, 100, 19, "D", {"1"}),
      Machine("M0", 0, 0, 0, 4, "M", {"1"}),
      Machine("C0", 0, 8, 0, 14, "C", {"1"}) }

\* PackedVMs: a machine with none, one or two workloads
ReportVMs ==
    { [InstanceType |-> m, Workloads |-> ws, pos |-> <<>>] :
          m \in ReportMachines,
          ws \in {<<>>, <<Workload(1, 5)>>, <<Workload(1, 5), Workload(1, 3)>>} }

InitReport ==
    /\ op = "Report"
    /\ catalog = <<>>
    /\ workloads = <<>>
    /\ args \in {[vms |-> vs] : vs \in Seqs(ReportVMs, MaxReportVMs)}
    /\ ret = NoArgs
    /\ pc = "TotalCost"
    /\ Idle

CallTotalCost ==
    /\ op = "Report"
    /\ pc = "TotalCost"
    /\ ret' = [TotalCost |-> TotalCost(args.vms)]
    /\ pc' = "AverageUtilization"
    /\ UNCHANGED <<idleVars, op, catalog, workloads, args>>

CallAverageUtilization ==
    /\ op = "Report"
    /\ pc = "AverageUtilization"
    /\ ret' = [TotalCost |-> ret.TotalCost,
               AverageUtilization |-> AverageUtilization(args.vms)]
    /\ pc' = "done"
    /\ UNCHANGED <<idleVars, op, catalog, workloads, args>>

NextReport ==
    \/ CallTotalCost
    \/ CallAverageUtilization

SpecReport == InitReport /\ [][NextReport]_vars

RECURSIVE SumF(_)
\* the sum of the values of a function with a finite domain
SumF(f) ==
    IF DOMAIN f = {} THEN 0
    ELSE LET x == CHOOSE x \in DOMAIN f : TRUE
         IN  f[x] + SumF([y \in DOMAIN f \ {x} |-> f[y]])

\* u = 100 * used / total, compared in integers; 0 when total is 0
IsPercentage(u, used, total) ==
    IF total = 0 THEN u = Zero
    ELSE u.d > 0 /\ u.n * total = 100 * used * u.d

\* C15: TotalCost is the sum of PricePerHour over the PackedVMs, each counted
\* once (a machine type used n times counts n times, an empty machine
\* counts); AverageUtilization is, per dimension, 100 times the sum of the
\* assigned requirements over the sum of the capacities, and 0 when the total
\* capacity is 0, the empty result included.
C15_Metrics ==
    (op = "Report" /\ pc = "done") =>
        LET vs  == args.vms
            V   == 1..Len(vs)
            cap == [cpu |-> SumF([v \in V |-> vs[v].InstanceType.VCpus]),
                    mem |-> SumF([v \in V |-> vs[v].InstanceType.MemoryGiB])]
            use == [cpu |-> SumF([v \in V |->
                        SumF([k \in 1..Len(vs[v].Workloads) |->
                                 vs[v].Workloads[k].CPURequirements])]),
                    mem |-> SumF([v \in V |->
                        SumF([k \in 1..Len(vs[v].Workloads) |->
                                 vs[v].Workloads[k].MemoryRequirements])])]
        IN  /\ ret.TotalCost =
                  SumF([v \in V |-> vs[v].InstanceType.PricePerHour])
            /\ IsPercentage(ret.AverageUtilization.cpuUtil, use.cpu, cap.cpu)
            /\ IsPercentage(ret.AverageUtilization.memUtil, use.mem, cap.mem)

\* the same machine type twice, once empty, with some of its cpu in use
C15_Witness ==
    /\ op = "Report"
    /\ pc = "done"
    /\ Len(args.vms) = 2
    /\ args.vms[1].InstanceType = args.vms[2].InstanceType
    /\ args.vms[1].Workloads = <<>>
    /\ args.vms[2].Workloads # <<>>
    /\ ret.TotalCost = 2 * args.vms[1].InstanceType.PricePerHour
    /\ RLess(Zero, ret.AverageUtilization.cpuUtil)
    /\ RLess(ret.AverageUtilization.cpuUtil, Rat(100, 1))

----------------------------------------------------------------------------
(* Strategy selectors *)

\* under the cpu strategy a covers the cpu requirement and b does not; under
\* the memory strategy the same with memory; both cover the other dimension,
\* cost the same, and the workload asks for no IO
FitBeats(a, b, w, strat) ==
    /\ a.PricePerHour = b.PricePerHour
    /\ w.IORequirements = 0
    /\ \/ /\ strat = StrategyCPUIntensive
          /\ a.VCpus >= w.CPURequirements
          /\ b.VCpus < w.CPURequirements
          /\ a.MemoryGiB >= w.MemoryRequirements
          /\ b.MemoryGiB >= w.MemoryRequirements
       \/ /\ strat = StrategyMemoryIntensive
          /\ a.MemoryGiB >= w.MemoryRequirements
          /\ b.MemoryGiB < w.MemoryRequirements
          /\ a.VCpus >= w.CPURequirements
          /\ b.VCpus >= w.CPURequirements

\* C17: under the cpu strategy, of two survivors of equal price where A has
\* at least the required VCpus and B has fewer, both with enough memory and
\* the workload asking for no IO, select returns A: B is never returned, and
\* A is returned when they are the only survivors. The same holds under the
\* memory strategy with memory and cpu exchanged.
C17_StrategyPrefersFit ==
    pc = "done" =>
        LET w == workloads[1]
            S == Survivors(catalog, w)
        IN  \A a, b \in S :
                FitBeats(catalog[a], catalog[b], w, EffStrategy) =>
                    /\ selResult.vm # catalog[b]
                    /\ S = {a, b} => selResult.vm = catalog[a]

\* the cpu strategy returned A although the short machine B is listed first
C17_Witness ==
    /\ pc = "done"
    /\ EffStrategy = StrategyCPUIntensive
    /\ \E a, b \in Survivors(catalog, workloads[1]) :
          /\ b < a
          /\ FitBeats(catalog[a], catalog[b], workloads[1], EffStrategy)
          /\ selResult.vm = catalog[a]

\* the same under the memory strategy
C17_WitnessMemory ==
    /\ pc = "done"
    /\ EffStrategy = StrategyMemoryIntensive
    /\ \E a, b \in Survivors(catalog, workloads[1]) :
          /\ b < a
          /\ FitBeats(catalog[a], catalog[b], workloads[1], EffStrategy)
          /\ selResult.vm = catalog[a]

----------------------------------------------------------------------------
(* Quota enforcement by pruning *)

FamiliesOf(cands) == {cands[k].Family : k \in 1..Len(cands)}

\* the families with a quota entry
Limited(q) == IF q.isNil THEN {} ELSE DOMAIN q.m

\* committing the selected machine would take its family over its quota
WouldExceed ==
    /\ op = "BinPackWorkloadsWithQuota"
    /\ pc = "selected"
    /\ bestVM.Name # ""
    /\ bestVM.Family \in Limited(quota)
    /\ FamilyVCpus(vms, bestVM.Family) + bestVM.VCpus > quota.m[bestVM.Family]

\* the step commits nothing and drops every candidate of the family, the
\* other candidates staying in order; the same workloads remain unplaced, so
\* the next selection is for the same seed
PrunesAndRetries ==
    /\ vms' = vms
    /\ unpacked' = unpacked
    /\ pc' = "loop"
    /\ bestVM.Family \notin FamiliesOf(candidates')
    /\ candidates' = SelectSeq(candidates,
                         LAMBDA c : c.Family # bestVM.Family)

\* C18: in BinPackWorkloadsWithQuota, when committing the selected machine
\* would push its family's committed vCPUs over the family's quota, nothing
\* is committed in that step, every candidate of the family is removed and
\* the selection is retried for the same seed; no machine of a removed family
\* is committed afterwards; every retry removes at least one family, so there
\* are at most as many retries as the catalog has families.
C18_QuotaRetry ==
    /\ [][WouldExceed => PrunesAndRetries]_vars
    /\ [][(op = "BinPackWorkloadsWithQuota" /\ vms' # vms) =>
             /\ Len(vms') = Len(vms) + 1
             /\ vms'[Len(vms')].InstanceType.Family \in FamiliesOf(candidates)]_vars
    /\ [][(op = "BinPackWorkloadsWithQuota" /\ candidates' # candidates) =>
             /\ FamiliesOf(candidates') \subseteq FamiliesOf(candidates)
             /\ FamiliesOf(candidates') # FamiliesOf(candidates)
             /\ vms' = vms]_vars
    /\ [](op = "BinPackWorkloadsWithQuota" =>
             FamiliesOf(candidates) \subseteq FamiliesOf(catalog))

----------------------------------------------------------------------------
(* The order in which pack serves the workloads *)

\* C19: the sort by demand at the head of pack is stable: two workloads of
\* equal integer demand (CPURequirements + int(MemoryRequirements)) keep
\* their relative input order in the sorted sequence.
C19_SortStable ==
    (Packing /\ pc # "sort") =>
        \A i, j \in 1..Len(sorted) :
            (i < j /\ Demand(sorted[i]) = Demand(sorted[j])) =>
                origin[i] < origin[j]

\* how many times w occurs in the sequence s
Occurrences(s, w) == Cardinality({k \in 1..Len(s) : s[k] = w})

\* the first unplaced position of the sorted sequence
FirstUnplaced == CHOOSE i \in Unplaced : \A k \in Unplaced : i <= k

\* C20: pack works on a permutation of the input workloads in non-increasing
\* order of integer demand; each seed is the first unplaced workload of that
\* sequence, so it has the greatest demand among the unplaced workloads, and
\* the demands of successive seeds never increase.
C20_SeedsByDemand ==
    /\ []((Packing /\ pc # "sort") =>
            /\ Len(sorted) = Len(workloads)
            /\ \A k \in 1..Len(workloads) :
                  Occurrences(sorted, workloads[k])
                      = Occurrences(workloads, workloads[k])
            /\ \A i, j \in 1..Len(sorted) :
                  i < j => Demand(sorted[i]) >= Demand(sorted[j]))
    /\ []((Packing /\ pc = "selected") =>
            /\ Unplaced # {}
            /\ bestVM = selectWithStrategy(candidates, sorted[FirstUnplaced],
                                           strategy).vm
            /\ \A k \in Unplaced :
                  Demand(sorted[FirstUnplaced]) >= Demand(sorted[k]))
    /\ [][(Packing /\ pc # "sort" /\ Unplaced # {} /\ Unplaced' # {}) =>
             Demand(sorted'[FirstUnplaced']) <= Demand(sorted[FirstUnplaced])]_vars

\* the sort moved a workload, a seed of greater demand has been placed on a
\* committed machine, and a machine is selected for the next seed
C20_Witness ==
    /\ Packing
    /\ pc = "selected"
    /\ sorted # workloads
    /\ vms # <<>>
    /\ Unplaced # {}
    /\ unpacked[1]
    /\ Demand(sorted[1]) > Demand(sorted[FirstUnplaced])
    /\ bestVM.Name # ""

----------------------------------------------------------------------------
(* RankInstanceTypes called directly *)

\* longest list handed to RankInstanceTypes
MaxRanked == 3

RankWorkloads == {Workload(2, 14), Workload(16, 14)}

InitRank ==
    /\ op = "RankInstanceTypes"
    /\ catalog \in DistinctSeqs(SelMachines, MaxRanked)
    /\ workloads \in {<<w>> : w \in RankWorkloads}
    /\ args \in {[strategy |-> st] : st \in Strategies \cup {StrategyUnknown}}
    /\ ret = NoArgs
    /\ pc = "call"
    /\ Idle

CallRank ==
    /\ op = "RankInstanceTypes"
    /\ pc = "call"
    /\ ret' = RankInstanceTypes(catalog, workloads[1], args.strategy)
    /\ pc' = "done"
    /\ UNCHANGED <<idleVars, op, catalog, workloads, args>>

NextRank == CallRank

SpecRank == InitRank /\ [][NextRank]_vars

\* where the machine m is listed in the catalog (names are unique)
CatalogIndex(m) == CHOOSE i \in 1..Len(catalog) : catalog[i] = m

RankScore(m) == ScoreInstance(m, workloads[1], args.strategy)

\* a permutation of the catalog in non-increasing order of score
RankedByScore ==
    /\ Len(ret) = Len(catalog)
    /\ \A i \in 1..Len(catalog) : \E k \in 1..Len(ret) : ret[k] = catalog[i]
    /\ \A i, j \in 1..Len(ret) :
          i < j => RLeq(RankScore(ret[j]), RankScore(ret[i]))

\* C21: RankInstanceTypes returns a permutation of its input in
\* non-increasing order of score, and the ranking is stable: two candidates
\* with equal scores appear in their catalog order at every position.
C21_RankStable ==
    (op = "RankInstanceTypes" /\ pc = "done") =>
        /\ RankedByScore
        /\ \A i, j \in 1..Len(ret) :
              (i < j /\ RankScore(ret[i]) = RankScore(ret[j])) =>
                  CatalogIndex(ret[i]) < CatalogIndex(ret[j])

\* C21, as it holds: a permutation in non-increasing order of score whose
\* first element is the first-listed candidate of the highest score; equal
\* scores further down may come in either order.
C21_RankFirstOfBest ==
    (op = "RankInstanceTypes" /\ pc = "done") =>
        /\ RankedByScore
        /\ \A i \in 1..Len(catalog) :
              RankScore(catalog[i]) = RankScore(ret[1]) =>
                  CatalogIndex(ret[1]) <= i

\* two candidates of equal score behind a better one that was listed last:
\* the swap that brings the best to the front has turned the pair round
C21_Witness ==
    /\ op = "RankInstanceTypes"
    /\ pc = "done"
    /\ Len(ret) = 3
    /\ ret[1] = catalog[3]
    /\ RankScore(ret[2]) = RankScore(ret[3])
    /\ RLess(RankScore(ret[2]), RankScore(ret[1]))
    /\ CatalogIndex(ret[2]) > CatalogIndex(ret[3])

----------------------------------------------------------------------------
(* ScoreInstance called directly *)

\* machines at a price of 0.99 (cost efficiency 1), at no price and no
\* capacity, with every feature, and an ordinary one
ScoreMachines ==
    { Machine("P99", 4, 32, 100, 99, "S", {"1", "2"}),
      Machine("Free", 0, 0, 0, 0, "S", {"1"}),
      [Machine("Full", 4, 32, 100, 99, "S", {"1", "2"})
          EXCEPT !.GPUCount = 1, !.GPUType = "NVIDIA",
                 !.EphemeralOSDisk = TRUE, !.NestedVirtualization = TRUE,
                 !.SpotSupported = TRUE, !.ConfidentialComputing = TRUE],
      Machine("Standard_D2_v4", 2, 16, 50, 9, "Standard_D", {"1", "2"}) }

ScoreWorkloads ==
    { ZeroWorkload,
      Workload(2, 14),
      Workload(3, 20),
      [Workload(4, 32) EXCEPT !.IORequirements = 100],
      [Workload(3, 20) EXCEPT !.IORequirements = 60, !.Zone = "2",
                              !.GPURequirements = 1,
                              !.RequireEphemeralOS = TRUE,
                              !.RequireNestedVirt = TRUE,
                              !.RequireSpot = TRUE,
                              !.RequireConfidential = TRUE] }

InitScore ==
    /\ op = "ScoreInstance"
    /\ catalog \in {<<m>> : m \in ScoreMachines}
    /\ workloads \in {<<w>> : w \in ScoreWorkloads}
    /\ args \in {[strategy |-> st] : st \in Strategies \cup {StrategyUnknown}}
    /\ ret = NoArgs
    /\ pc = "call"
    /\ Idle

CallScore ==
    /\ op = "ScoreInstance"
    /\ pc = "call"
    /\ ret' = ScoreInstance(catalog[1], workloads[1], args.strategy)
    /\ pc' = "done"
    /\ UNCHANGED <<idleVars, op, catalog, workloads, args>>

NextScore == CallScore

SpecScore == InitScore /\ [][NextScore]_vars

\* the terms ScoreInstance weighs under the strategy strat, in the order of
\* the source: the strategy's own fit first under cpu, memory and io
ScoreTerms(vm, w, strat) ==
    LET common == <<Rat(100, vm.PricePerHour + 1), ComputeFit(vm, w),
                    zoneScore(vm, w.Zone), gpuFit(vm, w)>>
    IN  CASE strat = StrategyCPUIntensive    -> <<cpuFit(vm, w)>> \o common
          [] strat = StrategyMemoryIntensive -> <<memFit(vm, w)>> \o common
          [] strat = StrategyIOIntensive     -> <<ioFit(vm, w)>> \o common
          [] OTHER -> common \o
               <<boolScore(vm.EphemeralOSDisk, w.RequireEphemeralOS),
                 boolScore(vm.NestedVirtualization, w.RequireNestedVirt),
                 boolScore(vm.SpotSupported, w.RequireSpot),
                 boolScore(vm.ConfidentialComputing, w.RequireConfidential)>>

\* the weights as the claim lists them, in hundredths
ClaimedWeights(strat) ==
    IF strat \in {StrategyCPUIntensive, StrategyMemoryIntensive,
                  StrategyIOIntensive}
    THEN <<50, 20, 10, 10, 10>>
    ELSE <<30, 20, 10, 10, 10, 10, 5, 5>>

RECURSIVE WeightedSum(_, _)
WeightedSum(ws, ts) ==
    IF ws = <<>> THEN Zero
    ELSE RAdd(RMul(Rat(Head(ws), 100), Head(ts)),
              WeightedSum(Tail(ws), Tail(ts)))

\* C22: under each strategy (cpu, memory, io, general, and any unrecognised
\* value, scored as general) ScoreInstance is the sum of its terms weighted
\* 0.5, 0.2, 0.1, 0.1, 0.1 (cpu, memory, io) or 0.3, 0.2, 0.1, 0.1, 0.1, 0.1,
\* 0.05, 0.05 (general); the weights sum to exactly 1, so a machine whose
\* terms are all 1 scores exactly 1.
C22_WeightsSumToOne ==
    (op = "ScoreInstance" /\ pc = "done") =>
        LET ts == ScoreTerms(catalog[1], workloads[1], args.strategy)
            ws == ClaimedWeights(args.strategy)
        IN  /\ Len(ws) = Len(ts)
            /\ ret = WeightedSum(ws, ts)
            /\ (\A k \in 1..Len(ts) : ts[k] = One) => ret = One

\* a general-scored call with an unrecognised strategy in which every term
\* is 1, the feature terms because the machine has the required features
C22_Witness ==
    /\ op = "ScoreInstance"
    /\ pc = "done"
    /\ args.strategy = StrategyUnknown
    /\ workloads[1].RequireSpot
    /\ \A k \in 1..8 :
          ScoreTerms(catalog[1], workloads[1], args.strategy)[k] = One
    /\ ret = One

\* C24: for every machine with a price of 0 or more and every workload with
\* non-negative requirements ScoreInstance is finite and strictly positive
\* under every strategy: the cost term 1/(price + 0.01) lies in (0, 100] and
\* weighs at least 0.2, no fit term divides by zero, and the score is never
\* the sentinel -1, at zero price and zero requirements too.
C24_ScorePositive ==
    (op = "ScoreInstance" /\ pc = "done") =>
        LET cents == catalog[1].PricePerHour + 1
        IN  /\ ret.d > 0
            /\ ret.n > 0
            /\ ret # MinusOne
            /\ ret.n * cents >= 20 * ret.d
            /\ RLeq(ret, Rat(100, 1))

\* no price, no capacity and a workload that asks for nothing
C24_Witness ==
    /\ op = "ScoreInstance"
    /\ pc = "done"
    /\ catalog[1].PricePerHour = 0
    /\ catalog[1].VCpus = 0
    /\ workloads[1] = ZeroWorkload
    /\ RLess(One, ret)

----------------------------------------------------------------------------
(* Price under the general strategy *)

\* a is strictly cheaper than b, with the same ComputeFit for w and the same
\* four feature flags
CheaperTwin(a, b, w) ==
    /\ a.PricePerHour < b.PricePerHour
    /\ ComputeFit(a, w) = ComputeFit(b, w)
    /\ a.EphemeralOSDisk = b.EphemeralOSDisk
    /\ a.NestedVirtualization = b.NestedVirtualization
    /\ a.SpotSupported = b.SpotSupported
    /\ a.ConfidentialComputing = b.ConfidentialComputing

GeneralScored ==
    EffStrategy \notin {StrategyCPUIntensive, StrategyMemoryIntensive,
                        StrategyIOIntensive}

\* C23: under the general strategy, of two survivors with the same ComputeFit
\* for the workload and the same feature indicators (ephemeral, nested
\* virtualization, spot, confidential), the one with the strictly lower
\* PricePerHour has the strictly higher score and is the one select returns:
\* the pricier is never returned, and the cheaper is returned when they are
\* the only survivors. A machine that exactly covers the workload thus beats
\* a larger, pricier one.
C23_CheaperWins ==
    (pc = "done" /\ GeneralScored) =>
        LET w == workloads[1]
            S == Survivors(catalog, w)
        IN  \A a, b \in S :
                CheaperTwin(catalog[a], catalog[b], w) =>
                    /\ RLess(ScoreInstance(catalog[b], w, EffStrategy),
                             ScoreInstance(catalog[a], w, EffStrategy))
                    /\ selResult.vm # catalog[b]
                    /\ S = {a, b} => selResult.vm = catalog[a]

\* the machine whose VCpus are exactly the requirement is returned although
\* a larger, pricier machine with the same fit is listed before it
C23_Witness ==
    /\ pc = "done"
    /\ GeneralScored
    /\ \E a, b \in Survivors(catalog, workloads[1]) :
          /\ b < a
          /\ CheaperTwin(catalog[a], catalog[b], workloads[1])
          /\ catalog[a].VCpus = workloads[1].CPURequirements
          /\ catalog[a].MemoryGiB >= workloads[1].MemoryRequirements
          /\ catalog[b].VCpus > catalog[a].VCpus
          /\ selResult.vm = catalog[a]

----------------------------------------------------------------------------
(* What a run leaves of its arguments *)

\* C25: BinPackWorkloads and BinPackWorkloadsWithQuota, and the
\* FilterInstanceTypes and RankInstanceTypes calls made for each seed, leave
\* the caller's workload sequence and catalog sequence as they were; the sort
\* and the ranking work on copies, and pruning a family narrows only the
\* run's own candidate list, so the catalog is still whole for a later call.
C25_InputsUnchanged ==
    /\ [][catalog' = catalog /\ workloads' = workloads]_vars
    /\ [][(Packing /\ pc = "loop" /\ pc' = "selected") =>
             (candidates' = candidates /\ sorted' = sorted)]_vars
    /\ [][(Packing /\ candidates' # candidates) =>
             (op = "BinPackWorkloadsWithQuota" /\ IsSubSeq(candidates', candidates))]_vars
    /\ [](Packing => IsSubSeq(candidates, catalog))

\* a returned quota run that sorted the workloads into another order and
\* pruned a family
C25_Witness ==
    /\ op = "BinPackWorkloadsWithQuota"
    /\ pc = "done"
    /\ sorted # workloads
    /\ candidates # catalog
    /\ vms # <<>>

----------------------------------------------------------------------------
(* What a committed machine carries *)

\* C26: every PackedVM of BinPackWorkloads and BinPackWorkloadsWithQuota holds
\* at least one workload and its first workload is the seed the machine was
\* selected for; every commit strictly decreases the number of unplaced
\* workloads, so no machine is counted in the result, or against a family
\* quota, without carrying a workload.
C26_MachinesCarryTheirSeed ==
    /\ [](Packing => \A v \in 1..Len(vms) : vms[v].Workloads # <<>>)
    /\ [][(Packing /\ vms' # vms) =>
             LET new == vms'[Len(vms')]
             IN  /\ new.Workloads # <<>>
                 /\ new.Workloads[1] = sorted[FirstUnplaced]
                 /\ new.pos[1] = origin[FirstUnplaced]
                 /\ Cardinality(Unplaced') < Cardinality(Unplaced)]_vars

\* C27: in every result of BinPackWorkloads each assigned workload, the seed
\* and the co-packed ones alike, passes the standard predicates against its
\* machine: zone, GPU count and type, ephemeral OS disk, trusted launch,
\* accelerated networking and the max-pods floor.
C27_AssignedPassPredicates ==
    op = "BinPackWorkloads" =>
        \A v \in 1..Len(vms) :
            \A k \in 1..Len(vms[v].Workloads) :
                PassesAll(vms[v].InstanceType, vms[v].Workloads[k])

\* the position in the sorted sequence of the workload at input position p
SortedIndex(p) == CHOOSE i \in 1..Len(origin) : origin[i] = p

\* the sorted workload i fits in what vm has left beside its workloads
FitsLeftover(i, vm) ==
    /\ sorted[i].CPURequirements
           <= vm.InstanceType.VCpus - SumCPU(vm.Workloads)
    /\ sorted[i].MemoryRequirements
           <= vm.InstanceType.MemoryGiB - SumMem(vm.Workloads)

\* C28: co-packing is maximal and ordered: right after pack commits a
\* machine, no workload that is still unplaced fits in the machine's leftover
\* capacity (VCpus and MemoryGiB minus the sums of its workloads), and the
\* workloads inside every PackedVM are listed in the sorted order, that is by
\* non-increasing demand.
C28_CoPackingMaximal ==
    /\ [][(Packing /\ vms' # vms) =>
             \A i \in Unplaced' : ~FitsLeftover(i, vms'[Len(vms')])]_vars
    /\ [](Packing =>
             \A v \in 1..Len(vms) :
                 \A k, l \in 1..Len(vms[v].pos) :
                     k < l =>
                         /\ SortedIndex(vms[v].pos[k]) < SortedIndex(vms[v].pos[l])
                         /\ Demand(vms[v].Workloads[k])
                                >= Demand(vms[v].Workloads[l]))

\* the newest machine carries a workload that comes later in the sorted
\* sequence than one it had to leave unplaced
C28_Witness ==
    /\ Packing
    /\ pc = "loop"
    /\ vms # <<>>
    /\ \E i \in Unplaced, k \in 1..Len(vms[Len(vms)].pos) :
          i < SortedIndex(vms[Len(vms)].pos[k])
    /\ Len(vms[Len(vms)].pos) >= 2

----------------------------------------------------------------------------
(* Termination on a catalog with room for every workload *)

\* w states no zone, GPU or feature requirement
Unconstrained(w) ==
    /\ w.Zone = ""
    /\ w.GPURequirements = 0
    /\ w.GPUType = ""
    /\ ~w.RequireEphemeralOS
    /\ ~w.RequireNestedVirt
    /\ ~w.RequireSpot
    /\ ~w.RequireConfidential
    /\ w.Capabilities = NoCaps

\* a non-empty catalog of named machines each of which can hold each
\* workload on its own, and workloads without requirements beyond capacity
Roomy ==
    /\ catalog # <<>>
    /\ \A m \in 1..Len(catalog) :
          /\ catalog[m].Name # ""
          /\ \A p \in 1..Len(workloads) : Holds(catalog[m], workloads[p])
    /\ \A p \in 1..Len(workloads) : Unconstrained(workloads[p])

\* C29: if the catalog is non-empty, every machine has a name and can hold
\* each workload on its own, and no workload states a zone, GPU or feature
\* requirement, then BinPackWorkloads terminates with every input workload
\* assigned to exactly one PackedVM, on at most as many machines as there
\* are workloads. Termination is by a variant: a machine is found for every
\* seed, every commit places at least the seed, nothing is ever unplaced
\* again, and the run returns once nothing is unplaced.
C29_RoomyPackTerminates ==
    /\ []((op = "BinPackWorkloads" /\ Roomy /\ pc = "selected") =>
            /\ bestVM.Name # ""
            /\ Holds(bestVM, sorted[FirstUnplaced]))
    /\ []((op = "BinPackWorkloads" /\ Roomy /\ pc # "sort") =>
            /\ Len(vms) + Cardinality(Unplaced) <= Len(workloads)
            /\ pc = "done" =>
                  /\ Unplaced = {}
                  /\ \A p \in 1..Len(workloads) : Cardinality(SlotsOf(p)) = 1
                  /\ Len(vms) <= Len(workloads))
    /\ [][(op = "BinPackWorkloads" /\ Roomy /\ pc # "sort") =>
             /\ Unplaced' \subseteq Unplaced
             /\ vms' # vms => Unplaced' # Unplaced
             /\ (pc = "selected" /\ pc' = "selected") => FALSE
             /\ (pc = "loop" /\ Unplaced = {}) => pc' = "done"]_vars

\* a returned run on such a catalog that needed a machine per workload
C29_Witness ==
    /\ op = "BinPackWorkloads"
    /\ Roomy
    /\ pc = "done"
    /\ Len(workloads) = MaxWorkloads
    /\ Len(vms) = Len(workloads)
    /\ \A p \in 1..Len(workloads) : Cardinality(SlotsOf(p)) = 1

----------------------------------------------------------------------------
(* BinPackWorkloads as a function of its arguments *)

\* the main loop of BinPackWorkloads; it is cut off at MaxVMs machines
RECURSIVE PackLoop(_, _, _, _, _, _)
PackLoop(srt, org, unp, cands, strat, res) ==
    IF NextIdx(unp) = -1 \/ Len(res) >= MaxVMs THEN res
    ELSE LET best == selectWithStrategy(cands, srt[NextIdx(unp)], strat).vm
         IN  IF best.Name = "" THEN res
             ELSE LET g == PackOnto(best, srt, org, unp)
                  IN  PackLoop(srt, org, g.unpacked, cands, strat,
                               Append(res, [InstanceType |-> best,
                                            Workloads    |-> g.packed,
                                            pos          |-> g.pos]))

BinPackWorkloads(ws, cands, strat) ==
    LET t == SortWorkloads(ws)
    IN  PackLoop([i \in 1..Len(t) |-> t[i].w], [i \in 1..Len(t) |-> t[i].pos],
                 [i \in 1..Len(t) |-> FALSE], cands, strat, <<>>)

\* a nil quota, or a QuotaMap without a positive entry for a family of cat
NoPositiveEntry(q, cat) ==
    q.isNil \/ \A f \in FamiliesOf(cat) : QuotaGet(q, f) <= 0

====
